---- MODULE Spec2Model ----
(***************************************************************************)
(* webotron: a command line tool that uploads a local directory to an S3   *)
(* bucket.  The model follows webotron.py: the module globals (manifest,   *)
(* CHUNK_SIZE), the digest gen_etag, the seven click commands, and the     *)
(* recursive walk of sync-dir, one directory entry per step.               *)
(*                                                                         *)
(* Abstractions.  A file's bytes are the first `len` bytes of a byte       *)
(* stream `src`; md5 is a free constructor over the data it is given, so   *)
(* two digests are equal exactly when they were computed from the same     *)
(* bytes in the same way.  The local tree is fixed in shape (a root, two   *)
(* nested directories, two file places and one place for a symlink or a    *)
(* fifo); directories are readable and symlinks do not form cycles.        *)
(***************************************************************************)
EXTENDS Integers, Sequences, FiniteSets, TLC

\* ---------------------------------------------------------------- bounds
MaxRuns       == 2   \* command invocations in one behaviour
MaxEdits      == 1   \* local content rewrites between commands
MaxExtWrites  == 1   \* puts by an external writer to the bucket
MaxChunks     == 2   \* chunks of the largest file
NumSrc        == 2   \* distinct byte streams for file contents
MaxKeysPerPage == 2  \* keys in one page of the object listing

\* ------------------------------------------------------- program constants
CHUNK_SIZE == 8388608

\* ------------------------------------------------------------------ state
VARIABLES
    fs,         \* local file system: path -> node
    denied,     \* store policy: the keys whose put the store refuses
    bucket,     \* the bucket's objects: key -> [etag, ctype]
    siteCfg,    \* the bucket's website configuration and policy
    manifest,   \* module global `manifest`: key -> etag
    pc,         \* position of the running command
    cmd,        \* the command of the current (or last) invocation
    stack,      \* handle_dir activations: <<[dir, todo]>>, innermost last
    log,        \* per visited file of this sync-dir run: what was done
    calls,      \* remote calls made by this invocation, by kind
    err,        \* kind of the last error of this invocation
    runs, edits, extWrites,   \* budgets used
    steps,      \* history: steps of the walk taken in this run
    snap,       \* history: the listing load_manifest read
    clean,      \* history: the last sync-dir walk finished, nothing failed,
                \*          and the bucket was not written by anyone else since
    edited,     \* history: files rewritten since `clean` was set
    base,       \* history: clean and edited as they were when this run started
    disturbed   \* history: the bucket was written externally during this run

vars == <<fs, denied, bucket, siteCfg, manifest, pc, cmd, stack, log, calls,
          err, runs, edits, extWrites, steps, snap, clean, edited, base,
          disturbed>>

\* ------------------------------------------------------------ local paths
Root     == <<"srv", "site">>
IndexP   == Root \o <<"index.html">>
DirA     == Root \o <<"a">>
DirB     == Root \o <<"a", "b">>
CtxtP    == Root \o <<"a", "b", "c.txt">>
LnkP     == Root \o <<"lnk">>
Missing  == <<"srv", "gone">>

Names     == {"index.html", "a", "b", "c.txt", "lnk"}
FileSlots == {IndexP, CtxtP}
Slots     == {Root, IndexP, DirA, DirB, CtxtP, LnkP}

\* A file's length in bytes: empty, small, exactly one chunk, and k chunks
\* plus an eighth of one (9 MiB for k = 1).
Lengths ==
    {0, 10, CHUNK_SIZE} \cup {k * CHUNK_SIZE + CHUNK_SIZE \div 8 : k \in 1..(MaxChunks - 1)}

NoContent == [src |-> 0, len |-> 0]
Contents  == {NoContent} \cup {[src |-> s, len |-> l] : s \in 1..NumSrc, l \in Lengths \ {0}}

\* A node of the tree; `readable` is the owner's read permission on a file.
Absent     == [kind |-> "absent", bytes |-> NoContent, target |-> <<>>, readable |-> TRUE]
DirNode    == [kind |-> "dir",    bytes |-> NoContent, target |-> <<>>, readable |-> TRUE]
FifoNode   == [kind |-> "fifo",   bytes |-> NoContent, target |-> <<>>, readable |-> TRUE]
FileNode(c, r) == [kind |-> "file", bytes |-> c,       target |-> <<>>, readable |-> r]
LinkNode(t) == [kind |-> "link",  bytes |-> NoContent, target |-> t,    readable |-> TRUE]

Node(p) == IF p \in DOMAIN fs THEN fs[p] ELSE Absent

IsPrefix(q, p) == Len(q) <= Len(p) /\ SubSeq(p, 1, Len(q)) = q

Prefixes(p) == {SubSeq(p, 1, n) : n \in 1..Len(p)}

\* Path.resolve(): replace the shortest prefix that is a symlink by its
\* target, until no prefix is one (symlinks are acyclic here).
RECURSIVE Resolve(_)
Resolve(p) ==
    LET links == {q \in Prefixes(p) : Node(q).kind = "link"}
    IN  IF links = {} THEN p
        ELSE LET q == CHOOSE x \in links : \A y \in links : Len(x) <= Len(y)
             IN  Resolve(Node(q).target \o SubSeq(p, Len(q) + 1, Len(p)))

\* the entry itself (lstat): the directory part resolved, the last name not
LNode(p) == Node(Resolve(SubSeq(p, 1, Len(p) - 1)) \o <<p[Len(p)]>>)

\* Path.is_dir(), Path.is_file(): stat, which follows symlinks
is_dir(p)  == Node(Resolve(p)).kind = "dir"
\* (a variant that does not follow a symlink in the last name)
is_file_lstat(p) == LNode(p).kind = "file"
is_file(p) == Node(Resolve(p)).kind = "file"

\* Path.iterdir(): the entries of the directory, named under p itself.
iterdir(p) ==
    {p \o <<n>> : n \in {m \in Names : Node(Resolve(p) \o <<m>>).kind # "absent"}}

\* Path.relative_to(root)
relative_to(p, root) == SubSeq(p, Len(root) + 1, Len(p))

\* str() of a relative POSIX path: its parts joined by "/".
RECURSIVE StrPath(_)
StrPath(parts) ==
    IF Len(parts) = 0 THEN "."
    ELSE IF Len(parts) = 1 THEN parts[1]
    ELSE parts[1] \o "/" \o StrPath(Tail(parts))

basename(p) == IF Len(p) = 0 THEN "" ELSE p[Len(p)]

\* key = str(p.relative_to(root))
KeyBasename(p) == basename(p)
KeyOf(p) == StrPath(relative_to(p, Root))

\* ------------------------------------------------------------- the digest
NoData == [tag |-> "nil", src |-> 0, from |-> 0, to |-> 0, parts |-> <<>>]
Bytes(s, a, b) == [tag |-> "bytes", src |-> IF a < b THEN s ELSE 0,
                   from |-> IF a < b THEN a ELSE 0, to |-> IF a < b THEN b ELSE 0,
                   parts |-> <<>>]
Raw(ds) == [tag |-> "digests", src |-> 0, from |-> 0, to |-> 0, parts |-> ds]

DataLen(d) == d.to - d.from

Min(a, b) == IF a < b THEN a ELSE b

\* f.read(n) at offset pos of a file holding content c
Read(c, pos, n) == Bytes(c.src, pos, Min(pos + n, c.len))

\* hash_data(data): an md5 object over data
hash_data(data) == [md5 |-> data]
digest(h)    == h
hexdigest(h) == [hex |-> h]

NoHex == [hex |-> [md5 |-> NoData]]
PyNone        == [kind |-> "None",  hex |-> NoHex, count |-> 0]
EmptyStr      == [kind |-> "str",   hex |-> NoHex, count |-> 0]
Quoted(x)     == [kind |-> "quoted", hex |-> x, count |-> 0]
QuotedCount(x, n) == [kind |-> "quoted-count", hex |-> x, count |-> n]

\* the read loop of gen_etag: the list of chunk hashes
RECURSIVE ReadChunks(_, _, _)
ReadChunks(c, pos, hashes) ==
    LET data == Read(c, pos, CHUNK_SIZE)
    IN  IF DataLen(data) = 0 THEN hashes
        ELSE ReadChunks(c, pos + DataLen(data), Append(hashes, hash_data(data)))

EtagOfHashesSuffixed(hashes) ==
    IF hashes = <<>> THEN PyNone
    ELSE QuotedCount(hexdigest(hash_data(Raw([i \in 1..Len(hashes) |-> digest(hashes[i])]))),
                     Len(hashes))

EtagOfHashes(hashes) ==
    IF hashes = <<>> THEN PyNone
    ELSE IF Len(hashes) = 1 THEN Quoted(hexdigest(hashes[1]))
    ELSE QuotedCount(hexdigest(hash_data(Raw([i \in 1..Len(hashes) |-> digest(hashes[i])]))),
                     Len(hashes))

gen_etag(file) == EtagOfHashes(ReadChunks(Node(file).bytes, 0, <<>>))

\* The store's entity tag of an uploaded object, as the specification gives
\* it: the quoted md5 of the bytes up to one chunk, else the quoted md5 of
\* the parts' raw md5s with the number of parts.
NumChunks(c) == (c.len + CHUNK_SIZE - 1) \div CHUNK_SIZE
Chunk(c, i)  == Bytes(c.src, (i - 1) * CHUNK_SIZE, Min(i * CHUNK_SIZE, c.len))
MultipartETag(c) ==
    IF c.len <= CHUNK_SIZE
    THEN Quoted(hexdigest(hash_data(Bytes(c.src, 0, c.len))))
    ELSE QuotedCount(
             hexdigest(hash_data(Raw([i \in 1..NumChunks(c) |-> digest(hash_data(Chunk(c, i)))]))),
             NumChunks(c))
StoreETag(c) == MultipartETag(c)

\* mimetypes.guess_type(key)[0], by the key's last name
guess_type(p) ==
    CASE basename(p) = "index.html" -> "text/html"
      [] basename(p) = "c.txt"      -> "text/plain"
      [] OTHER                      -> "None"
ContentType(p) == IF guess_type(p) = "None" THEN "text/plain" ELSE guess_type(p)

\* ------------------------------------------------------------- functions
EmptyFn == [k \in {} |-> 0]
Put(f, k, v) == [x \in DOMAIN f \cup {k} |-> IF x = k THEN v ELSE f[x]]

NoCalls == [list |-> 0, upload |-> 0, location |-> 0, other |-> 0]

Pages(n) == IF n = 0 THEN 1 ELSE (n + MaxKeysPerPage - 1) \div MaxKeysPerPage

Idle == pc \in {"idle", "done", "raised"}

\* manifest.get(key, "")
LookupLive(key) == IF key \in DOMAIN bucket THEN bucket[key].etag ELSE EmptyStr
Lookup(key) == IF key \in DOMAIN manifest THEN manifest[key] ELSE EmptyStr

\* the comparison of _upload_object_when_key_available: upload unless the
\* manifest's tag for the key equals the computed one
\* (variants: upload only what the manifest lists; upload whatever it says)
ShouldUploadIfListed(seen, etag) == seen # EmptyStr /\ seen # etag
ShouldUploadAlways(seen, etag) == TRUE
ShouldUpload(seen, etag) == ~(seen = etag)

\* the except clause of handle_dir: the error is printed and the loop goes on
AbortWalk(st) == <<>>
OnFileException(st) == st


\* ------------------------------------------------------------------- Init
\* The local tree: index.html, a/b/ with or without c.txt of any length, and
\* lnk: nothing, a fifo, or a symlink to a file, to a directory, or to
\* nothing.  Either nothing is at fault, or index.html cannot be read and the
\* store refuses puts to two of the keys.
DeniedKeys == {"b/c.txt", "a/b/c.txt"}

InitTrees(faulty) ==
    {[p \in Slots |->
        CASE p = Root \/ p = DirA \/ p = DirB -> DirNode
          [] p = IndexP -> FileNode([src |-> 1, len |-> 10], ~faulty)
          [] p = CtxtP  -> c
          [] p = LnkP   -> l] :
        c \in {Absent} \cup {FileNode(x, TRUE) : x \in {y \in Contents : y.src <= 1}},
        l \in {Absent, FifoNode} \cup {LinkNode(t) : t \in {IndexP, DirB, Missing}}}

Init ==
    /\ \E faulty \in BOOLEAN :
          /\ fs \in InitTrees(faulty)
          /\ denied = IF faulty THEN DeniedKeys ELSE {}
    /\ bucket = EmptyFn
    /\ siteCfg = [website |-> FALSE, public |-> FALSE]
    /\ manifest = EmptyFn
    /\ pc = "idle"
    /\ cmd = "none"
    /\ stack = <<>>
    /\ log = EmptyFn
    /\ calls = NoCalls
    /\ err = "none"
    /\ runs = 0 /\ edits = 0 /\ extWrites = 0 /\ steps = 0
    /\ snap = EmptyFn
    /\ clean = FALSE
    /\ edited = {}
    /\ base = [clean |-> FALSE, edited |-> {}]
    /\ disturbed = FALSE

\* cli(): every command is a fresh process, so the module globals are as
\* written at import (manifest = {}), and nothing of an earlier run is kept.
Invoke(name) ==
    /\ Idle /\ runs < MaxRuns
    /\ runs' = runs + 1
    /\ cmd' = name
    /\ manifest' = EmptyFn /\ snap' = EmptyFn
    /\ stack' = <<>> /\ log' = EmptyFn /\ steps' = 0
    /\ base' = [clean |-> clean, edited |-> edited]
    /\ disturbed' = FALSE
    /\ UNCHANGED <<fs, denied, edits, extWrites>>

\* ---------------------------------------------------------------- sync-dir
SyncDirStart ==
    /\ Invoke("sync-dir")
    /\ pc' = "load"
    /\ calls' = NoCalls /\ err' = "none"
    /\ UNCHANGED <<bucket, siteCfg, clean, edited>>

Frame(d) == [dir |-> d, todo |-> iterdir(d)]

\* load_manifest(bucket): every page of the listing is read into manifest.
LoadManifestOk ==
    /\ pc = "load"
    /\ manifest' = [k \in DOMAIN bucket |-> bucket[k].etag]
    /\ snap' = [k \in DOMAIN bucket |-> bucket[k].etag]
    /\ calls' = [calls EXCEPT !.list = @ + Pages(Cardinality(DOMAIN bucket))]
    /\ pc' = "walk"
    /\ stack' = <<Frame(Root)>>
    /\ UNCHANGED <<steps, fs, denied, bucket, siteCfg, cmd, log, err, runs, edits,
                   extWrites, clean, edited, base, disturbed>>

\* load_manifest(bucket) raises on page j + 1 (no such bucket, no permission,
\* no network): the pages before it are in manifest, and nothing in sync_dir
\* catches the exception.
LoadManifestFail ==
    /\ pc = "load"
    /\ \E j \in 0..(Pages(Cardinality(DOMAIN bucket)) - 1) :
       \E S \in SUBSET (DOMAIN bucket) :
          /\ Cardinality(S) = j * MaxKeysPerPage
          /\ manifest' = [k \in S |-> bucket[k].etag]
          /\ calls' = [calls EXCEPT !.list = @ + j + 1]
    /\ err' = "remote"
    /\ pc' = "raised"
    /\ clean' = FALSE
    /\ UNCHANGED <<steps, fs, denied, bucket, siteCfg, cmd, stack, log, runs, edits,
                   extWrites, snap, edited, base, disturbed>>

Top == stack[Len(stack)]
PopTodo(p) == [stack EXCEPT ![Len(stack)].todo = @ \ {p}]
Todo == IF pc = "walk" /\ stack # <<>> THEN Top.todo ELSE {}

\* for p in target.iterdir(): if p.is_dir(): handle_dir(p)
\* (p.is_file() is then false of p, and the loop goes on)
Descend(p) ==
    /\ p \in Todo
    /\ is_dir(p)
    /\ stack' = Append(PopTodo(p), Frame(p))
    /\ steps' = steps + 1
    /\ UNCHANGED <<fs, denied, bucket, siteCfg, manifest, pc, cmd, log, calls, err, runs,
                   edits, extWrites, snap, clean, edited, base, disturbed>>

\* an entry that is neither a directory nor a file: nothing is done
SkipEntry(p) ==
    /\ p \in Todo
    /\ ~is_dir(p) /\ ~is_file(p)
    /\ stack' = PopTodo(p)
    /\ steps' = steps + 1
    /\ UNCHANGED <<fs, denied, bucket, siteCfg, manifest, pc, cmd, log, calls, err, runs,
                   edits, extWrites, snap, clean, edited, base, disturbed>>

\* what the run did with the file at p (a record of the history, per path)
Entry(p, etag, outcome) ==
    [key |-> KeyOf(p), object |-> Resolve(p), bytes |-> Node(Resolve(p)).bytes,
     etag |-> etag, seen |-> Lookup(KeyOf(p)), outcome |-> outcome,
     times |-> IF p \in DOMAIN log THEN log[p].times + 1 ELSE 1]

\* if p.is_file(): gen_etag raises (the file cannot be opened for reading);
\* the except clause prints and the loop goes on
FileDigestError(p) ==
    /\ p \in Todo
    /\ is_file(p)
    /\ ~Node(Resolve(p)).readable
    /\ log' = Put(log, p, Entry(p, PyNone, "digest_error"))
    /\ err' = "file"
    /\ stack' = OnFileException(PopTodo(p))
    /\ steps' = steps + 1
    /\ UNCHANGED <<fs, denied, bucket, siteCfg, manifest, pc, cmd, calls, runs, edits,
                   extWrites, snap, clean, edited, base, disturbed>>

\* if p.is_file(): the tags match and the upload is skipped
FileSkip(p) ==
    /\ p \in Todo
    /\ is_file(p)
    /\ Node(Resolve(p)).readable
    /\ ~ShouldUpload(Lookup(KeyOf(p)), gen_etag(Resolve(p)))
    /\ log' = Put(log, p, Entry(p, gen_etag(Resolve(p)), "skipped"))
    /\ stack' = PopTodo(p)
    /\ steps' = steps + 1
    /\ UNCHANGED <<fs, denied, bucket, siteCfg, manifest, pc, cmd, calls, err, runs,
                   edits, extWrites, snap, clean, edited, base, disturbed>>

\* if p.is_file(): upload_file succeeds and the store holds the object
FileUploadOk(p) ==
    /\ p \in Todo
    /\ is_file(p)
    /\ Node(Resolve(p)).readable
    /\ ShouldUpload(Lookup(KeyOf(p)), gen_etag(Resolve(p)))
    /\ KeyOf(p) \notin denied
    /\ bucket' = Put(bucket, KeyOf(p),
                     [etag |-> StoreETag(Node(Resolve(p)).bytes), ctype |-> ContentType(p)])
    /\ calls' = [calls EXCEPT !.upload = @ + 1]
    /\ log' = Put(log, p, Entry(p, gen_etag(Resolve(p)), "uploaded"))
    /\ stack' = PopTodo(p)
    /\ steps' = steps + 1
    /\ UNCHANGED <<fs, denied, siteCfg, manifest, pc, cmd, err, runs, edits,
                   extWrites, snap, clean, edited, base, disturbed>>

\* if p.is_file(): upload_file raises; the except clause prints and the loop
\* goes on
FileUploadError(p) ==
    /\ p \in Todo
    /\ is_file(p)
    /\ Node(Resolve(p)).readable
    /\ ShouldUpload(Lookup(KeyOf(p)), gen_etag(Resolve(p)))
    /\ KeyOf(p) \in denied
    /\ calls' = [calls EXCEPT !.upload = @ + 1]
    /\ log' = Put(log, p, Entry(p, gen_etag(Resolve(p)), "upload_error"))
    /\ err' = "remote"
    /\ stack' = OnFileException(PopTodo(p))
    /\ steps' = steps + 1
    /\ UNCHANGED <<fs, denied, bucket, siteCfg, manifest, pc, cmd, runs, edits,
                   extWrites, snap, clean, edited, base, disturbed>>

\* the for loop of one handle_dir activation is exhausted: it returns
ReturnFromDir ==
    /\ pc = "walk" /\ stack # <<>> /\ Top.todo = {}
    /\ stack' = SubSeq(stack, 1, Len(stack) - 1)
    /\ steps' = steps + 1
    /\ UNCHANGED <<fs, denied, bucket, siteCfg, manifest, pc, cmd, log, calls, err, runs,
                   edits, extWrites, snap, clean, edited, base, disturbed>>

Failed(e) == e.outcome \in {"digest_error", "upload_error"}
Issued(e) == e.outcome \in {"uploaded", "upload_error"}

\* handle_dir(root) has returned
WalkDone ==
    /\ pc = "walk" /\ stack = <<>>
    /\ pc' = "url"
    /\ clean' = (~disturbed /\ \A p \in DOMAIN log : ~Failed(log[p]))
    /\ edited' = {}
    /\ steps' = steps + 1
    /\ UNCHANGED <<fs, denied, bucket, siteCfg, manifest, cmd, stack, log, calls, err,
                   runs, edits, extWrites, snap, base, disturbed>>

\* print(get_bucket_url(bucket)): get_bucket_location answers
GetBucketUrlOk ==
    /\ pc = "url"
    /\ calls' = [calls EXCEPT !.location = @ + 1]
    /\ pc' = "done"
    /\ UNCHANGED <<steps, fs, denied, bucket, siteCfg, manifest, cmd, stack, log, err, runs,
                   edits, extWrites, snap, clean, edited, base, disturbed>>

\* print(get_bucket_url(bucket)): get_bucket_location raises, uncaught
GetBucketUrlFail ==
    /\ pc = "url"
    /\ calls' = [calls EXCEPT !.location = @ + 1]
    /\ err' = "remote"
    /\ pc' = "raised"
    /\ UNCHANGED <<steps, fs, denied, bucket, siteCfg, manifest, cmd, stack, log, runs,
                   edits, extWrites, snap, clean, edited, base, disturbed>>

WalkStep ==
    \/ \E p \in Todo : Descend(p)
    \/ \E p \in Todo : SkipEntry(p)
    \/ \E p \in Todo : FileDigestError(p)
    \/ \E p \in Todo : FileSkip(p)
    \/ \E p \in Todo : FileUploadOk(p)
    \/ \E p \in Todo : FileUploadError(p)
    \/ ReturnFromDir
    \/ WalkDone

\* ------------------------------------------------------ the other commands
\* A command of one remote call inside try/except: the call answers, or its
\* error is printed; either way the command returns.
OneCall(name, kind, failed) ==
    /\ Invoke(name)
    /\ calls' = [NoCalls EXCEPT ![kind] = 1]
    /\ err' = IF failed THEN "remote" ELSE "none"
    /\ pc' = "done"
    /\ UNCHANGED <<bucket, clean, edited>>

\* create-s3-bucket (the model follows one bucket, which exists)
CreateBucket(failed) ==
    /\ OneCall("create-s3-bucket", "other", failed)
    /\ UNCHANGED siteCfg

\* enable-website-on-bucket
EnableWebsite(failed) ==
    /\ OneCall("enable-website-on-bucket", "other", failed)
    /\ siteCfg' = IF failed THEN siteCfg ELSE [siteCfg EXCEPT !.website = TRUE]

\* make-bucket-public
MakePublic(failed) ==
    /\ OneCall("make-bucket-public", "other", failed)
    /\ siteCfg' = IF failed THEN siteCfg ELSE [siteCfg EXCEPT !.public = TRUE]

\* list-buckets
ListBuckets(failed) ==
    /\ OneCall("list-buckets", "list", failed)
    /\ UNCHANGED siteCfg

\* list-bucket-objects: objects.all() reads the listing page by page inside
\* try/except; every page answers, or page j + 1 raises and the error is
\* printed; either way the command returns.
ListBucketObjects(failed) ==
    /\ Invoke("list-bucket-objects")
    /\ IF failed
          THEN \E j \in 0..(Pages(Cardinality(DOMAIN bucket)) - 1) :
                  calls' = [NoCalls EXCEPT !.list = j + 1]
          ELSE calls' = [NoCalls EXCEPT !.list = Pages(Cardinality(DOMAIN bucket))]
    /\ err' = IF failed THEN "remote" ELSE "none"
    /\ pc' = "done"
    /\ UNCHANGED <<bucket, siteCfg, clean, edited>>


\* os.walk(top): top and the directories below it, symlinked ones not entered
RECURSIVE WalkDirs(_)
WalkDirs(top) ==
    {top} \cup UNION {WalkDirs(d) : d \in {e \in iterdir(top) : is_dir(e) /\ LNode(e).kind # "link"}}

\* the (full_file_name, s3_file_name) pairs of _upload_object_to_s3's walk
WalkFiles(top) ==
    UNION {{[path |-> e, key |-> basename(d) \o "/" \o basename(e)] :
                e \in {x \in iterdir(d) : ~is_dir(x)}} : d \in WalkDirs(top)}

\* upload_file(Filename, Key) succeeds: a readable regular file, a key the
\* store accepts
CanUpload(f) == is_file(f.path) /\ Node(Resolve(f.path)).readable /\ f.key \notin denied

Uploaded(b, files, ctype) ==
    [k \in DOMAIN b \cup {f.key : f \in files} |->
        IF \E f \in files : f.key = k
        THEN [etag |-> StoreETag(Node(Resolve((CHOOSE f \in files : f.key = k).path)).bytes),
              ctype |-> ctype]
        ELSE b[k]]

UploadInputs == {IndexP, CtxtP, DirA, LnkP, Missing}
ObjectTypes  == {"file", "dir", "tar"}

ValidArgs(object, object_type) ==
    /\ object_type \in {"dir", "file"}
    /\ object_type = "file" => is_file(object)
    /\ object_type = "dir"  => is_dir(object)

\* upload-object-to-bucket: the argument checks raise before any call
UploadObjectInvalid(object, object_type) ==
    /\ Invoke("upload-object-to-bucket")
    /\ ~ValidArgs(object, object_type)
    /\ calls' = NoCalls /\ err' = "validation" /\ pc' = "raised"
    /\ UNCHANGED <<bucket, siteCfg, clean, edited>>

\* upload-object-to-bucket ... file: one upload under the file's base name
UploadObjectFile(object) ==
    /\ Invoke("upload-object-to-bucket")
    /\ ValidArgs(object, "file")
    /\ calls' = [NoCalls EXCEPT !.upload = 1] /\ pc' = "done"
    /\ LET f == [path |-> object, key |-> basename(object)]
       IN  IF CanUpload(f)
           THEN bucket' = Uploaded(bucket, {f}, "text/html") /\ err' = "none"
           ELSE bucket' = bucket /\ err' = "upload"
    /\ clean' = FALSE
    /\ UNCHANGED <<siteCfg, edited>>

\* upload-object-to-bucket ... dir: the walk uploads file after file; the first
\* exception ends it, with the files before it uploaded
UploadObjectDir(object) ==
    /\ Invoke("upload-object-to-bucket")
    /\ ValidArgs(object, "dir")
    /\ pc' = "done"
    /\ \/ /\ \A f \in WalkFiles(object) : CanUpload(f)
          /\ bucket' = Uploaded(bucket, WalkFiles(object), "binary/octet-stream")
          /\ calls' = [NoCalls EXCEPT !.upload = Cardinality(WalkFiles(object))]
          /\ err' = "none"
       \/ \E bad \in {f \in WalkFiles(object) : ~CanUpload(f)} :
          \E before \in SUBSET {f \in WalkFiles(object) : CanUpload(f)} :
             /\ bucket' = Uploaded(bucket, before, "binary/octet-stream")
             /\ calls' = [NoCalls EXCEPT !.upload = Cardinality(before) + 1]
             /\ err' = "upload"
    /\ clean' = FALSE
    /\ UNCHANGED <<siteCfg, edited>>

\* ------------------------------------------------------------ environment
ExtKeys == {"index.html"}
ExtContent == [src |-> NumSrc, len |-> 10]

\* another writer puts an object into the bucket while sync-dir runs
ExternalWrite(k) ==
    /\ extWrites < MaxExtWrites
    /\ pc \in {"load", "walk"}
    /\ LookupLive(k) # StoreETag(ExtContent)
    /\ extWrites' = extWrites + 1
    /\ bucket' = Put(bucket, k, [etag |-> StoreETag(ExtContent), ctype |-> "text/plain"])
    /\ clean' = FALSE
    /\ disturbed' = TRUE
    /\ UNCHANGED <<steps, fs, denied, siteCfg, manifest, pc, cmd, stack, log, calls, err, runs,
                   edits, snap, edited, base>>

\* the bytes a rewrite may leave: the same length from another stream, or none
EditContents(c) ==
    {NoContent} \cup {[src |-> NumSrc, len |-> IF c.len = 0 THEN 10 ELSE c.len]}

\* after a sync-dir, one file is rewritten with other bytes
LocalEdit(slot) ==
    /\ Idle /\ edits < MaxEdits /\ runs < MaxRuns
    /\ cmd = "sync-dir"
    /\ Node(slot).kind = "file"
    /\ \E c \in EditContents(Node(slot).bytes) :
          /\ c # Node(slot).bytes
          /\ fs' = [fs EXCEPT ![slot] = FileNode(c, Node(slot).readable)]
    /\ edits' = edits + 1
    /\ edited' = edited \cup {slot}
    /\ UNCHANGED <<steps, denied, bucket, siteCfg, manifest, pc, cmd, stack, log, calls, err,
                   runs, extWrites, snap, clean, base, disturbed>>

\* --------------------------------------------------------------- the system
SyncDir ==
    \/ SyncDirStart
    \/ LoadManifestOk
    \/ LoadManifestFail
    \/ WalkStep
    \/ GetBucketUrlOk
    \/ GetBucketUrlFail

OtherCommands ==
    \/ \E failed \in BOOLEAN : CreateBucket(failed)
    \/ \E failed \in BOOLEAN : EnableWebsite(failed)
    \/ \E failed \in BOOLEAN : MakePublic(failed)
    \/ \E failed \in BOOLEAN : ListBuckets(failed)
    \/ \E failed \in BOOLEAN : ListBucketObjects(failed)
    \/ \E object \in UploadInputs, object_type \in ObjectTypes :
           UploadObjectInvalid(object, object_type)
    \/ \E object \in UploadInputs : UploadObjectFile(object)
    \/ \E object \in UploadInputs : UploadObjectDir(object)

Environment ==
    \/ \E k \in ExtKeys : ExternalWrite(k)
    \/ \E slot \in FileSlots : LocalEdit(slot)

\* sync-dir, run again and again on a tree that is edited in between, against
\* a bucket that another writer writes to
Next == SyncDir \/ Environment

Spec == Init /\ [][Next]_vars

\* the seven commands, in any order, on an unchanging tree
NextCmd == SyncDir \/ OtherCommands

CmdSpec == Init /\ [][NextCmd]_vars

\* ------------------------------------------------------------- the claims
InSync == cmd = "sync-dir"

\* handle_dir(root) has been entered / has returned in the current run
WalkStarted  == InSync /\ (pc \in {"walk", "url", "done"} \/ (pc = "raised" /\ calls.location > 0))
WalkFinished == InSync /\ (pc \in {"url", "done"} \/ (pc = "raised" /\ calls.location > 0))

\* the regular files reachable by recursive descent from d, by apparent path
RECURSIVE ReachFiles(_)
ReachFiles(d) ==
    {e \in iterdir(d) : is_file(e)}
        \cup UNION {ReachFiles(e) : e \in {x \in iterdir(d) : is_dir(x)}}

IssuedKeys == {log[p].key : p \in {q \in DOMAIN log : Issued(log[q])}}

\* C1: in sync-dir, a visited file whose digest was computed is uploaded if
\* and only if the manifest has no entry for its key or holds another digest.
C1Theorem ==
    InSync =>
        \A p \in DOMAIN log :
            log[p].outcome # "digest_error" =>
                (Issued(log[p]) <=>
                    (log[p].key \notin DOMAIN manifest \/ manifest[log[p].key] # log[p].etag))

C1Witness ==
    /\ InSync /\ pc = "done"
    /\ \E p \in DOMAIN log : log[p].outcome = "skipped"
    /\ \E p \in DOMAIN log :
          /\ log[p].outcome = "uploaded" /\ log[p].etag # PyNone
          /\ log[p].key \in DOMAIN manifest /\ manifest[log[p].key] # log[p].etag

\* C2: a sync-dir that follows a sync-dir in which nothing failed, with the
\* tree and the bucket untouched since, issues no upload.
C2Claim ==
    (InSync /\ base.clean /\ base.edited = {} /\ ~disturbed) => IssuedKeys = {}

\* C3: after a sync-dir in which nothing failed, with exactly one file
\* rewritten and nothing else touched, the next sync-dir issues exactly one
\* upload, for the rewritten file's key (stated for trees without symlinks).
C3Claim ==
    (WalkFinished /\ base.clean /\ ~disturbed /\ Node(LnkP).kind # "link"
       /\ Cardinality(base.edited) = 1)
    => (calls.upload = 1 /\ IssuedKeys = {KeyOf(q) : q \in base.edited})

\* C4: for a non-empty file gen_etag is the quoted md5 of the whole file when
\* it is at most one chunk long, else the quoted md5 of the chunks' raw md5s
\* with the number of chunks; equal bytes give equal tags at any path.
C4Theorem ==
    InSync =>
        /\ \A p \in DOMAIN log :
              (log[p].outcome # "digest_error" /\ log[p].bytes.len > 0)
                  => log[p].etag = MultipartETag(log[p].bytes)
        /\ \A p, q \in DOMAIN log :
              (log[p].outcome # "digest_error" /\ log[q].outcome # "digest_error"
                 /\ log[p].bytes = log[q].bytes) => log[p].etag = log[q].etag

C4Witness ==
    /\ WalkFinished
    /\ \E p, q \in DOMAIN log :
          /\ p # q /\ log[p].bytes = log[q].bytes
          /\ log[p].bytes.len > CHUNK_SIZE
          /\ log[p].etag.kind = "quoted-count" /\ log[p].etag.count = MaxChunks
    /\ \E p \in DOMAIN log : log[p].bytes.len = 10 /\ log[p].etag.kind = "quoted"

\* C5: a file whose digest or upload fails does not end the walk: when the
\* walk has returned, every reachable regular file has been handled, the
\* unreadable ones and the refused ones reported, the others compared and
\* uploaded when their tag differs.
C5Theorem ==
    WalkFinished =>
        \A p \in ReachFiles(Root) :
            /\ p \in DOMAIN log
            /\ (log[p].outcome = "digest_error") <=> ~Node(Resolve(p)).readable
            /\ (log[p].outcome = "upload_error")
                   <=> (Node(Resolve(p)).readable /\ log[p].seen # log[p].etag
                          /\ log[p].key \in denied)
            /\ (log[p].outcome = "uploaded")
                   <=> (Node(Resolve(p)).readable /\ log[p].seen # log[p].etag
                          /\ log[p].key \notin denied)

C5Witness ==
    /\ WalkFinished
    /\ \E p \in DOMAIN log : log[p].outcome = "digest_error"
    /\ \E p \in DOMAIN log : log[p].outcome = "upload_error"
    /\ Cardinality(DOMAIN log) >= 3

\* C6: no command ends with a remote call's error propagating.
C6Claim == pc = "raised" => err # "remote"

AllMatch ==
    \A p \in ReachFiles(Root) :
        p \in DOMAIN log /\ log[p].outcome # "digest_error" /\ log[p].etag = log[p].seen

\* C7 as claimed: a sync-dir in which every file's digest equals the
\* manifest's returns having made no remote call at all.
C7Claim ==
    (InSync /\ pc = "done" /\ AllMatch)
        => calls.list + calls.upload + calls.location + calls.other = 0

\* C7 as amended: such a run issues no upload; its remote calls are the pages
\* of the listing at the start and the one location lookup at the end.
C7Theorem ==
    (InSync /\ pc = "done" /\ AllMatch)
        => /\ calls.upload = 0 /\ IssuedKeys = {}
           /\ calls.list = Pages(Cardinality(DOMAIN manifest)) /\ calls.list >= 1
           /\ calls.location = 1 /\ calls.other = 0

C7Witness ==
    InSync /\ pc = "done" /\ AllMatch /\ Cardinality(DOMAIN log) >= 2 /\ calls.list >= 2

\* C8 as claimed: nothing reached through a symlink is handled or entered.
C8Claim ==
    InSync =>
        /\ \A p \in DOMAIN log : Resolve(p) = p
        /\ \A i \in 1..Len(stack) : Resolve(stack[i].dir) = stack[i].dir

\* C8 as amended: the walk follows symlinks.  A symlink to a regular file is
\* digested and uploaded under the symlink's own key, a symlink to a
\* directory is entered and its files get keys under the symlink's name;
\* only a dangling symlink or a fifo is passed over.
C8Theorem ==
    WalkFinished =>
        /\ (Node(LnkP).kind = "link" /\ Node(Node(LnkP).target).kind = "file")
              => (LnkP \in DOMAIN log /\ log[LnkP].key = "lnk"
                    /\ log[LnkP].object = Node(LnkP).target)
        /\ (Node(LnkP).kind = "link" /\ Node(LnkP).target = DirB /\ Node(CtxtP).kind = "file")
              => (LnkP \o <<"c.txt">> \in DOMAIN log
                    /\ log[LnkP \o <<"c.txt">>].key = "lnk/c.txt"
                    /\ log[LnkP \o <<"c.txt">>].object = CtxtP)
        /\ (Node(LnkP).kind = "fifo"
               \/ (Node(LnkP).kind = "link" /\ Node(Node(LnkP).target).kind = "absent"))
              => \A p \in DOMAIN log : ~IsPrefix(LnkP, p)

C8Witness ==
    /\ WalkFinished /\ Node(LnkP).kind = "link"
    /\ \E p \in DOMAIN log : IsPrefix(LnkP, p) /\ log[p].outcome = "uploaded"

SnapGet(key) == IF key \in DOMAIN snap THEN snap[key] ELSE EmptyStr

\* C9: once load_manifest has returned the manifest is the listing it read,
\* whatever is uploaded, skipped, failed or written to the bucket meanwhile,
\* and every comparison of the run reads that listing.
C9Theorem ==
    WalkStarted =>
        /\ manifest = snap
        /\ \A p \in DOMAIN log : log[p].seen = SnapGet(log[p].key)

C9Witness ==
    /\ InSync /\ pc = "done" /\ disturbed
    /\ "index.html" \notin DOMAIN manifest
    /\ IndexP \in DOMAIN log /\ log[IndexP].seen = EmptyStr
    /\ LookupLive("index.html") # EmptyStr

\* the key the specification gives a file: its path below the root, "/"-joined
ExpectedKey(p) ==
    CASE p = IndexP -> "index.html"
      [] p = CtxtP  -> "a/b/c.txt"
      [] p = LnkP   -> "lnk"
      [] p = LnkP \o <<"c.txt">> -> "lnk/c.txt"
      [] OTHER -> "?"

C10Safety ==
    /\ \A p \in DOMAIN log : log[p].times = 1 /\ log[p].key = ExpectedKey(p)
    /\ WalkFinished => DOMAIN log = ReachFiles(Root)

\* the entries below a set of directories, by apparent path
Below(ds) == UNION {iterdir(d) : d \in ds}
Dirs(es)  == {e \in es : is_dir(e)}

\* the steps of a whole walk of the tree: one per entry, one more per
\* directory, two for the root (the trees of the model are at most four
\* levels deep)
WalkLength ==
    LET l1 == iterdir(Root)
        d1 == Dirs(l1)
        l2 == Below(d1)
        d2 == Dirs(l2)
        l3 == Below(d2)
        d3 == Dirs(l3)
        l4 == Below(d3)
    IN  2 + Cardinality(l1 \cup l2 \cup l3 \cup l4)
          + Cardinality(d1 \cup d2 \cup d3 \cup Dirs(l4))

\* some step of the walk can be taken
CanStep ==
    \/ ENABLED (ReturnFromDir \/ WalkDone)
    \/ ENABLED (\E p \in Todo : Descend(p) \/ SkipEntry(p) \/ FileDigestError(p))
    \/ \E p \in Todo : is_file(p) /\ Node(Resolve(p)).readable

\* C10: the walk ends, and when it has, every reachable regular file has
\* been handled exactly once, under its path below the root joined by "/".
\* The walk ends because it has a step to take until handle_dir(root) has
\* returned, and it never takes more steps than WalkLength, a number the
\* tree fixes: one per entry, one more per directory entered and left, one
\* for the root's activation and one for the end.  (A file is handled in one
\* step of the model: the code is sequential.)
C10Theorem ==
    /\ C10Safety
    /\ (InSync /\ pc = "walk") => (CanStep /\ steps < WalkLength)
    /\ WalkFinished => steps = WalkLength

C10Witness ==
    /\ WalkFinished
    /\ CtxtP \in DOMAIN log /\ log[CtxtP].key = "a/b/c.txt" /\ log[CtxtP].times = 1
    /\ IndexP \in DOMAIN log /\ Cardinality(DOMAIN log) >= 3

====
